---------------------------- MODULE Spec2Model ----------------------------
(***************************************************************************)
(* Model of the ICE Run game component (src/App.js, function App).         *)
(*                                                                         *)
(* The component keeps six pieces of React state (playerLane, jumpClock,   *)
(* obstacles, score, highScore, isGameOver) and five refs (playerLaneRef,  *)
(* jumpOffsetRef, jumpingRef, scoreRef, spawnTimerRef).  Three passive     *)
(* effects copy state into the refs after a commit, a fourth one owns the  *)
(* requestAnimationFrame loop.                                             *)
(*                                                                         *)
(* Execution model.  Every handler (a frame callback `update`, a press or  *)
(* swipe calling moveLeft / moveRight / triggerJump, the Restart press     *)
(* calling resetGame) runs to completion: its setState calls are batched,  *)
(* the updater functions run in the render that follows, and the result is *)
(* committed.  Passive effects (useEffect) are deferred: after the commit  *)
(* of a frame callback they are pending until React flushes them, which it *)
(* does at the latest before the next render.  Press handlers are discrete *)
(* events, whose effects are flushed with the commit.                      *)
(*                                                                         *)
(* Numbers.  Positions are kept exactly, in units of 1/YUnit pixel, so the *)
(* per-tick displacement (BASE_SPEED + score * 0.08) * delta / (1000/60)   *)
(* is an integer for every integer delta (floating point rounding is not   *)
(* modelled).  The window is fixed (width x height), the obstacle id       *)
(* (`${Date.now()}-${Math.random()}`) is not kept: nothing reads it but    *)
(* the renderer.                                                           *)
(***************************************************************************)
EXTENDS Integers, Sequences, FiniteSets

(***************************************************************************)
(* Bounds of the model.                                                    *)
(***************************************************************************)
\* a tick is not taken when it would leave more obstacles than this
MaxObstacles == 2
\* a tick is not taken when it would raise the score above this
MaxScore == 1
\* the time deltas (ms) a frame callback may measure, Date.now() - lastTime
\* (line 140): a repeated frame time, half and full spawn interval, a stall
Deltas == {0, 450, 900, 2700}

(***************************************************************************)
(* Program constants, src/App.js lines 22-27.                              *)
(***************************************************************************)
LANES == 3
OBSTACLE_SIZE == 70
SNOWMAN_SIZE == 90
JUMP_DURATION == 900
JUMP_HEIGHT == 120
\* BASE_SPEED = 3.2, in hundredths
BASE_SPEED_X100 == 320
\* the score coefficient 0.08 of line 153, in hundredths
SPEED_PER_SCORE_X100 == 8

\* positions are counted in 1/YUnit pixel
YUnit == 625
\* useWindowDimensions(), line 43: a fixed window
width == 400
height == 800

Max(a, b) == IF a >= b THEN a ELSE b
Min(a, b) == IF a <= b THEN a ELSE b
Abs(a) == IF a >= 0 THEN a ELSE -a

Lanes == 0 .. (LANES - 1)

\* line 44: Math.min(height * 0.7, 560), in pixels
fieldHeight == Min((height * 7) \div 10, 560)
\* line 45
laneWidth == (width - 40) \div LANES
\* lines 46-48
lanePositions == [idx \in Lanes |-> 20 + idx * laneWidth + laneWidth \div 2]
\* line 49
playerBaseline == fieldHeight - 30

(***************************************************************************)
(* computeJumpOffset, lines 32-38, in 1/YUnit pixel.  sin(pi * p) is taken *)
(* by Bhaskara's rational approximation 16 p (1-p) / (5 - 4 p (1-p)),      *)
(* which is exact at p = 0, 1/6, 1/2, 5/6, 1 and positive on (0, 1); the   *)
(* offset is rounded down to a whole pixel.                                *)
(***************************************************************************)
computeJumpOffset(remaining) ==
    IF remaining <= 0
    THEN 0
    ELSE LET q == remaining * (JUMP_DURATION - remaining)
             d == JUMP_DURATION * JUMP_DURATION
         IN  ((JUMP_HEIGHT * 16 * q) \div (5 * d - 4 * q)) * YUnit

VARIABLES
    playerLane,     \* useState(1), line 51
    jumpClock,      \* useState(0), line 52
    obstacles,      \* useState([]), line 53: sequence of [lane, x, y]
    score,          \* useState(0), line 54
    highScore,      \* useState(0), line 55
    isGameOver,     \* useState(false), line 56
    playerLaneRef,  \* line 58
    jumpOffsetRef,  \* line 59
    jumpingRef,     \* line 60
    scoreRef,       \* line 61
    spawnTimerRef,  \* line 62
    pendingPassive, \* a commit's passive effects have not run yet
    frameRequested, \* animationId names a frame callback that will fire
    gameOverMax,    \* history: the largest score seen right after a collision tick
    leftSinceReset, \* history: obstacles that left the field since the last reset
    laneAtTick,     \* history: playerLane as the last frame callback found it
    jumpElapsed     \* history: frame time summed over the frames of the jump in progress

state == <<playerLane, jumpClock, obstacles, score, highScore, isGameOver>>
refs == <<playerLaneRef, jumpOffsetRef, jumpingRef, scoreRef>>
history == <<gameOverMax, leftSinceReset, laneAtTick, jumpElapsed>>
vars == <<state, refs, spawnTimerRef, pendingPassive, frameRequested, history>>


(***************************************************************************)
(* The ref-synchronising effects, lines 65-77, and the game loop effect,   *)
(* lines 130-206, as they leave the refs and the frame request when they   *)
(* run against the committed state.                                        *)
(***************************************************************************)
\* lines 65-67
playerLaneEffect(lane) == lane
\* lines 69-73: jumpOffsetRef.current
jumpOffsetEffect(clock) == computeJumpOffset(clock)
\* lines 69-73: jumpingRef.current
jumpingEffect(clock) == clock > 0
\* lines 75-77
scoreEffect(s) == s
\* lines 130-206: the cleanup of the previous run cancels animationId (205);
\* the new run requests a frame (204) unless isGameOver (131-133)
loopEffect(gameOver) == ~gameOver

(***************************************************************************)
(* The state updaters of the input handlers.                               *)
(***************************************************************************)
\* a variant of triggerJumpUpdater that restarts the jump while airborne
triggerJumpRestarts(prev) == JUMP_DURATION
\* line 105: (prev) => (prev > 0 ? prev : JUMP_DURATION)
triggerJumpUpdater(prev) == IF prev > 0 THEN prev ELSE JUMP_DURATION
\* a variant of moveLeftUpdater without the clamp at lane 0
moveLeftUnclamped(lane) == lane - 1
\* line 109: (lane) => Math.max(0, lane - 1)
moveLeftUpdater(lane) == Max(0, lane - 1)
\* a variant of moveRightUpdater without the clamp at the last lane
moveRightUnclamped(lane) == lane + 1
\* line 113: (lane) => Math.min(LANES - 1, lane + 1)
moveRightUpdater(lane) == Min(LANES - 1, lane + 1)
\* line 118: (prev) => Math.max(prev, scoreRef.current)
handleCollisionUpdater(prev, scoreRefCurrent) == Max(prev, scoreRefCurrent)

(***************************************************************************)
(* update, lines 138-202: the pieces of one frame callback.                *)
(***************************************************************************)
\* a variant of jumpClockUpdater without the floor at 0
jumpClockUnfloored(prev, delta) == prev - delta
\* a variant of jumpClockUpdater that counts the frame time at half speed
jumpClockHalfSpeed(prev, delta) == Max(0, prev - delta \div 2)
\* line 144: (prev) => Math.max(0, prev - delta)
jumpClockUpdater(prev, delta) == Max(0, prev - delta)

\* lines 142, 153: (BASE_SPEED + scoreRef.current * 0.08) * delta / (1000 / 60)
verticalSpeed(scoreRefCurrent, delta) ==
    ((BASE_SPEED_X100 + scoreRefCurrent * SPEED_PER_SCORE_X100) * delta
        * ((60 * YUnit) \div 100)) \div 1000

\* a variant of newY in which the speed depends on the obstacle's lane
newYByLane(obs, speed) == obs.y + speed * (obs.lane + 1)
\* line 156
newY(obs, speed) == obs.y + speed

\* line 157: newY > fieldHeight + OBSTACLE_SIZE
leftField(y) == y > (fieldHeight + OBSTACLE_SIZE) * YUnit

\* a variant of hits that leaves out the jumpingRef guard of line 162
hitsWhileJumping(obs, y, laneRef, jumping, jumpOffset) ==
    /\ obs.lane = laneRef
    /\ y + OBSTACLE_SIZE * YUnit
          > (playerBaseline - SNOWMAN_SIZE + 10) * YUnit - jumpOffset
    /\ y < (playerBaseline - 10) * YUnit - jumpOffset
\* lines 162-167: the collision test of one obstacle at its advanced position y
hits(obs, y, laneRef, jumping, jumpOffset) ==
    /\ ~jumping
    /\ obs.lane = laneRef
    /\ LET playerX == lanePositions[laneRef]
           playerBottom == playerBaseline * YUnit - jumpOffset
           playerTop == playerBottom - SNOWMAN_SIZE * YUnit
           obsBottom == y + OBSTACLE_SIZE * YUnit
           horizontalDistance == Abs(playerX - obs.x)
           overlappingX == 100 * horizontalDistance < 35 * laneWidth
           overlappingY == /\ obsBottom > playerTop + 10 * YUnit
                           /\ y < playerBottom - 10 * YUnit
       IN  overlappingX /\ overlappingY

\* lines 155-160: the number of obstacles that left the field
clearedCount(prev, speed) ==
    Cardinality({i \in 1 .. Len(prev) : leftField(newY(prev[i], speed))})

\* lines 155-171: some obstacle still in the field hits the player
collidedIn(prev, speed, laneRef, jumping, jumpOffset) ==
    \E i \in 1 .. Len(prev) :
        /\ ~leftField(newY(prev[i], speed))
        /\ hits(prev[i], newY(prev[i], speed), laneRef, jumping, jumpOffset)

\* lines 155-174: the obstacles pushed to `updated`, in order
advanced(prev, speed, laneRef, jumping, jumpOffset) ==
    LET moved == [i \in 1 .. Len(prev) |->
                    [prev[i] EXCEPT !.y = newY(prev[i], speed)]]
        kept(o) == /\ ~leftField(o.y)
                   /\ ~hits(o, o.y, laneRef, jumping, jumpOffset)
    IN  SelectSeq(moved, kept)

\* a variant of scoreUpdater that subtracts the cleared obstacles
scoreUpdaterSubtracts(prevScore, cleared) == prevScore - cleared
\* line 177: (prevScore) => prevScore + cleared
scoreUpdater(prevScore, cleared) == prevScore + cleared

\* a variant of spawnInterval for a strict comparison (> instead of >=) at 187
spawnIntervalStrict(scoreRefCurrent) == Max(250, 900 - scoreRefCurrent * 25) + 1
\* line 186
spawnInterval(scoreRefCurrent) == Max(250, 900 - scoreRefCurrent * 25)

\* lines 190-195: the obstacle spawned in lane laneIndex
spawned(laneIndex) ==
    [lane |-> laneIndex,
     x |-> lanePositions[laneIndex],
     y |-> (0 - OBSTACLE_SIZE - 20) * YUnit]

TypeOK ==
    /\ playerLane \in Int
    /\ jumpClock \in Int
    /\ score \in Nat
    /\ highScore \in Nat
    /\ isGameOver \in BOOLEAN
    /\ jumpingRef \in BOOLEAN
    /\ pendingPassive \in BOOLEAN
    /\ frameRequested \in BOOLEAN
    /\ spawnTimerRef \in Nat
    /\ \A i \in 1 .. Len(obstacles) :
          obstacles[i].lane \in Lanes /\ obstacles[i].y \in Int

\* lines 51-62, then the effects of the first commit (65-77, 130-206)
Init ==
    /\ playerLane = 1
    /\ jumpClock = 0
    /\ obstacles = <<>>
    /\ score = 0
    /\ highScore = 0
    /\ isGameOver = FALSE
    /\ playerLaneRef = 1
    /\ jumpOffsetRef = 0
    /\ jumpingRef = FALSE
    /\ scoreRef = 0
    /\ spawnTimerRef = 0
    /\ pendingPassive = FALSE
    /\ frameRequested = TRUE
    /\ gameOverMax = 0
    /\ leftSinceReset = 0
    /\ laneAtTick = 1
    /\ jumpElapsed = 0

(***************************************************************************)
(* What the updaters queued by a frame callback find in the refs: React    *)
(* flushes the passive effects still pending from the previous commit      *)
(* before it renders, so the refs are then in step with the committed      *)
(* state.  The frame requested at line 201 is cancelled by the cleanup of  *)
(* a pending game loop effect (205) and requested again by its new run     *)
(* (204) unless isGameOver.                                                *)
(***************************************************************************)
playerLaneRefSeen ==
    IF pendingPassive THEN playerLaneEffect(playerLane) ELSE playerLaneRef
jumpOffsetRefSeen ==
    IF pendingPassive THEN jumpOffsetEffect(jumpClock) ELSE jumpOffsetRef
\* a variant of jumpingRefSeen that reads the ref before the pending effects run
jumpingRefUnflushed == jumpingRef
jumpingRefSeen ==
    IF pendingPassive THEN jumpingEffect(jumpClock) ELSE jumpingRef
scoreRefSeen ==
    IF pendingPassive THEN scoreEffect(score) ELSE scoreRef
frameRequestedSeen ==
    IF pendingPassive THEN loopEffect(isGameOver) ELSE TRUE

\* lines 148, 155-160: `cleared` at the end of the forEach of a frame
\* callback that measures delta
clearedInTick(delta) ==
    clearedCount(obstacles, verticalSpeed(scoreRefSeen, delta))
\* lines 147, 155-171: `collided` at the end of that forEach
collidedInTick(delta) ==
    collidedIn(obstacles, verticalSpeed(scoreRefSeen, delta),
               playerLaneRefSeen, jumpingRefSeen, jumpOffsetRefSeen)

(***************************************************************************)
(* React runs the pending passive effects of the last commit: the three    *)
(* ref-synchronising effects and, isGameOver being among its dependencies, *)
(* the game loop effect.                                                   *)
(***************************************************************************)
FlushPassiveEffects ==
    /\ pendingPassive
    /\ playerLaneRef' = playerLaneEffect(playerLane)
    /\ jumpOffsetRef' = jumpOffsetEffect(jumpClock)
    /\ jumpingRef' = jumpingEffect(jumpClock)
    /\ scoreRef' = scoreEffect(score)
    /\ frameRequested' = loopEffect(isGameOver)
    /\ pendingPassive' = FALSE
    /\ UNCHANGED <<state, spawnTimerRef, history>>

(***************************************************************************)
(* One frame callback: update (138-202) measuring `delta`, with randomLane *)
(* (40) returning laneIndex if it is called, followed by the render that   *)
(* runs the queued updaters and by the commit.  The effects of this commit *)
(* are left pending.                                                       *)
(***************************************************************************)
update(delta, laneIndex) ==
    /\ frameRequested
    /\ LET speed == verticalSpeed(scoreRefSeen, delta)
           cleared == clearedInTick(delta)
           collided == collidedInTick(delta)
           updated == advanced(obstacles, speed, playerLaneRefSeen,
                               jumpingRefSeen, jumpOffsetRefSeen)
           timer == spawnTimerRef + delta
           spawns == timer >= spawnInterval(scoreRefSeen)
           newScore == IF cleared > 0 THEN scoreUpdater(score, cleared) ELSE score
       IN  /\ newScore <= MaxScore
           /\ jumpClock' = jumpClockUpdater(jumpClock, delta)
           /\ score' = newScore
           /\ IF collided
              THEN /\ isGameOver' = TRUE
                   /\ highScore' = handleCollisionUpdater(highScore, scoreRefSeen)
                   /\ obstacles' = <<>>
                   /\ spawnTimerRef' = spawnTimerRef
                   /\ gameOverMax' = Max(gameOverMax, newScore)
              ELSE /\ isGameOver' = isGameOver
                   /\ highScore' = highScore
                   /\ obstacles' = IF spawns
                                   THEN Append(updated, spawned(laneIndex))
                                   ELSE updated
                   /\ spawnTimerRef' = IF spawns THEN 0 ELSE timer
                   /\ gameOverMax' = gameOverMax
           /\ Len(obstacles') <= MaxObstacles
           /\ playerLaneRef' = playerLaneRefSeen
           /\ jumpOffsetRef' = jumpOffsetRefSeen
           /\ jumpingRef' = jumpingRefSeen
           /\ scoreRef' = scoreRefSeen
           /\ frameRequested' = frameRequestedSeen
           /\ pendingPassive' = TRUE
           /\ playerLane' = playerLane
           /\ leftSinceReset' = leftSinceReset + cleared
           /\ laneAtTick' = playerLane
           /\ jumpElapsed' = IF jumpClock' = 0
                             THEN 0
                             ELSE Min(JUMP_DURATION, jumpElapsed + delta)

(***************************************************************************)
(* A press or swipe handler: the state change is rendered and committed,   *)
(* and the effects of the commit (and any still pending) are run with it.  *)
(***************************************************************************)
Committed ==
    /\ playerLaneRef' = playerLaneEffect(playerLane')
    /\ jumpOffsetRef' = jumpOffsetEffect(jumpClock')
    /\ jumpingRef' = jumpingEffect(jumpClock')
    /\ scoreRef' = scoreEffect(score')
    /\ frameRequested' = loopEffect(isGameOver')
    /\ pendingPassive' = FALSE

\* lines 104-106; the Jump button (310) and the swipe up (219-221)
triggerJump ==
    /\ jumpClock' = triggerJumpUpdater(jumpClock)
    /\ UNCHANGED <<playerLane, obstacles, score, highScore, isGameOver,
                   spawnTimerRef, history>>
    /\ Committed

\* lines 108-110; the Left button (307) and the swipe left (216-217)
moveLeft ==
    /\ playerLane' = moveLeftUpdater(playerLane)
    /\ UNCHANGED <<jumpClock, obstacles, score, highScore, isGameOver,
                   spawnTimerRef, history>>
    /\ Committed

\* lines 112-114; the Right button (313) and the swipe right (214-215)
moveRight ==
    /\ playerLane' = moveRightUpdater(playerLane)
    /\ UNCHANGED <<jumpClock, obstacles, score, highScore, isGameOver,
                   spawnTimerRef, history>>
    /\ Committed

\* a variant of resetGame that forgets setScore(0)
resetGameKeepsScore ==
    /\ isGameOver
    /\ playerLane' = 1
    /\ jumpClock' = 0
    /\ obstacles' = <<>>
    /\ spawnTimerRef' = 0
    /\ isGameOver' = FALSE
    /\ UNCHANGED <<score, highScore, gameOverMax>>
    /\ leftSinceReset' = 0
    /\ laneAtTick' = 1
    /\ jumpElapsed' = 0
    /\ Committed

\* a variant of resetGame that forgets spawnTimerRef.current = 0
resetGameKeepsTimer ==
    /\ isGameOver
    /\ playerLane' = 1
    /\ jumpClock' = 0
    /\ obstacles' = <<>>
    /\ score' = 0
    /\ isGameOver' = FALSE
    /\ UNCHANGED <<spawnTimerRef, highScore, gameOverMax>>
    /\ leftSinceReset' = 0
    /\ laneAtTick' = 1
    /\ jumpElapsed' = 0
    /\ Committed

\* lines 121-128; the Restart button is rendered only while isGameOver (295-303)
resetGame ==
    /\ isGameOver
    /\ playerLane' = 1
    /\ jumpClock' = 0
    /\ obstacles' = <<>>
    /\ score' = 0
    /\ spawnTimerRef' = 0
    /\ isGameOver' = FALSE
    /\ UNCHANGED <<highScore, gameOverMax>>
    /\ leftSinceReset' = 0
    /\ laneAtTick' = 1
    /\ jumpElapsed' = 0
    /\ Committed

Tick == \E delta \in Deltas : \E laneIndex \in Lanes : update(delta, laneIndex)

Next ==
    \/ Tick
    \/ FlushPassiveEffects
    \/ triggerJump
    \/ moveLeft
    \/ moveRight
    \/ resetGame

Spec == Init /\ [][Next]_vars

(***************************************************************************)
(* The running game loop: update requests the next frame itself (201), so  *)
(* while frames can fire, one whose measured delta is positive eventually  *)
(* does.                                                                   *)
(***************************************************************************)
TickPositive ==
    \E delta \in Deltas \ {0} : \E laneIndex \in Lanes : update(delta, laneIndex)

SpecLive == Init /\ [][Next]_vars /\ WF_vars(TickPositive)

(***************************************************************************)
(* The same component under frame deltas that are no multiples of one      *)
(* another, so that the spawn timer can stop between the spawn intervals   *)
(* of two consecutive scores (900 and 875 ms).                             *)
(***************************************************************************)
DeltasFine == {0, 880, 900, 2700}

TickFine ==
    \E delta \in DeltasFine : \E laneIndex \in Lanes : update(delta, laneIndex)

NextFine ==
    \/ TickFine
    \/ FlushPassiveEffects
    \/ triggerJump
    \/ moveLeft
    \/ moveRight
    \/ resetGame

SpecFine == Init /\ [][NextFine]_vars

(***************************************************************************)
(* Properties.                                                             *)
(***************************************************************************)
\* an input handler runs: a press or a swipe
Input == triggerJump \/ moveLeft \/ moveRight

\* C1: in every state with isGameOver (alive == false), highScore (bestScore)
\* is at least score.
C1_BestAtLeastScoreWhenOver == isGameOver => highScore >= score

\* C2: highScore (bestScore) equals the largest score seen in the state right
\* after a collision tick, and 0 if there was no game over.
C2_BestIsMaxGameOverScore == highScore = gameOverMax

\* C3: while isGameOver, triggerJump, moveLeft and moveRight change no field of
\* the game state.
C3_InputsIgnoredWhenOver ==
    [][(isGameOver /\ Input) => UNCHANGED <<state, spawnTimerRef>>]_vars

\* C4: once isGameOver, no frame callback changes obstacles, score, jumpClock,
\* spawnTimerRef or highScore, also when the callback had been requested before
\* the collision was committed.
C4_NoTickMutationWhenOver ==
    [][(isGameOver /\ Tick) =>
          UNCHANGED <<obstacles, score, jumpClock, spawnTimerRef, highScore>>]_vars

\* C5: score never decreases from one state with ~isGameOver to the next such
\* state, and from the state after the game-over transition on it keeps its
\* value until resetGame.
C5_ScoreMonotoneThenFrozen ==
    [][/\ (~isGameOver /\ ~isGameOver') => score' >= score
       /\ (isGameOver /\ isGameOver') => score' = score]_vars

\* C5 witness: a game is over with a positive score and a later step (an
\* effect flush or an input) has been taken in that state.
C5_Witness == isGameOver /\ score > 0 /\ ~pendingPassive

C7_LaneInRange == playerLane >= 0 /\ playerLane < LANES

\* C7 witness: the player stands in the leftmost lane while obstacles are
\* in the field (moveLeft has acted, frames have run).
C7_Witness == playerLane = 0 /\ Len(obstacles) > 0

\* C8: in every reachable state 0 <= jumpClock <= JUMP_DURATION.
C8_JumpClockInRange == jumpClock >= 0 /\ jumpClock <= JUMP_DURATION

\* C8 witness: a jump is under way and a frame has decreased its clock.
C8_Witness == jumpClock > 0 /\ jumpClock < JUMP_DURATION /\ pendingPassive

\* C9: triggerJump sets jumpClock to JUMP_DURATION when it is 0 and leaves it
\* alone when it is positive; while jumpClock is positive no step increases it.
C9_JumpNotExtended ==
    [][/\ triggerJump =>
            jumpClock' = (IF jumpClock = 0 THEN JUMP_DURATION ELSE jumpClock)
       /\ jumpClock > 0 => jumpClock' <= jumpClock]_vars

\* C9 witness: the player is in mid-jump and the last step was an input or an
\* effect flush, not a frame.
C9_Witness ==
    jumpClock > 0 /\ jumpClock < JUMP_DURATION /\ ~pendingPassive /\ ~isGameOver

\* C10: a tick in which some obstacle is in the collision zone leaves
\* isGameOver true, highScore equal to the larger of the old highScore and
\* score, obstacles empty, and spawnTimerRef as it was (no spawn).
C10_CollisionTick ==
    [][\A delta \in Deltas : \A laneIndex \in Lanes :
          (update(delta, laneIndex) /\ collidedInTick(delta)) =>
              /\ isGameOver'
              /\ highScore' = Max(highScore, score')
              /\ obstacles' = <<>>
              /\ spawnTimerRef' = spawnTimerRef]_vars

\* the player's vertical band while grounded overlaps obstacle obs by more
\* than the tolerance, in the player's lane
inZone(obs) == hits(obs, obs.y, playerLane, FALSE, 0)

\* C11: a tick that leaves jumpClock positive (the player is airborne when the
\* collision test runs) never ends the game, wherever the obstacles are.
C11_NoCollisionWhileAirborne ==
    [][\A delta \in Deltas : \A laneIndex \in Lanes :
          (update(delta, laneIndex) /\ ~isGameOver /\ jumpClock' > 0)
              => ~isGameOver']_vars

\* C11 witness: right after a tick the player is airborne and alive while an
\* obstacle of the player's lane overlaps the player's band.
C11_Witness ==
    /\ ~isGameOver /\ pendingPassive /\ jumpClock > 0
    /\ \E i \in 1 .. Len(obstacles) :
          obstacles[i].lane = playerLane /\ inZone(obstacles[i])

\* C12: while the game is not over, score is the number of obstacles that
\* left the field (advanced position beyond fieldHeight + OBSTACLE_SIZE) since
\* the last reset: each adds exactly 1 and nothing else adds to score.
C12_ScoreCountsLeftField == ~isGameOver => score = leftSinceReset

\* C12 witness: an obstacle has left the field and the game goes on.
C12_Witness == ~isGameOver /\ score > 0 /\ leftSinceReset > 0

\* C13: a non-colliding tick appends exactly one obstacle when spawnTimerRef
\* plus delta reaches the spawn interval, and then sets spawnTimerRef to 0;
\* otherwise it appends none and spawnTimerRef grows by delta.  With score 0
\* and nothing spawned since the reset the interval is 900 ms and the timer
\* is below it.
C13_SpawnWhenIntervalReached ==
    /\ []((~isGameOver /\ score = 0 /\ obstacles = <<>>) => spawnTimerRef < 900)
    /\ [][\A delta \in Deltas : \A laneIndex \in Lanes :
            (update(delta, laneIndex) /\ ~collidedInTick(delta)) =>
                LET reached ==
                        spawnTimerRef + delta >= Max(250, 900 - score * 25)
                    remaining == Len(obstacles) - clearedInTick(delta)
                IN  /\ Len(obstacles') = remaining + (IF reached THEN 1 ELSE 0)
                    /\ spawnTimerRef' =
                          (IF reached THEN 0 ELSE spawnTimerRef + delta)
                    /\ reached =>
                          obstacles'[Len(obstacles')] = spawned(laneIndex)]_vars

\* C13 witness: the first obstacle of a game has just been spawned, with
\* score 0 and the timer back at 0.
C13_Witness ==
    /\ ~isGameOver /\ pendingPassive /\ score = 0 /\ spawnTimerRef = 0
    /\ Len(obstacles) = 1
    /\ obstacles[1].y = (0 - OBSTACLE_SIZE - 20) * YUnit

\* C14: the step that restarts the game yields playerLane = LANES / 2,
\* jumpClock = 0, no obstacles, score = 0, spawnTimerRef = 0, isGameOver false
\* and leaves highScore alone (so the result does not depend on the state it
\* starts from, and a second reset would change nothing).
C14_ResetState ==
    [][(isGameOver /\ ~isGameOver') =>
          /\ playerLane' = LANES \div 2
          /\ jumpClock' = 0
          /\ obstacles' = <<>>
          /\ score' = 0
          /\ spawnTimerRef' = 0
          /\ highScore' = highScore]_vars

\* C14 witness: a restarted game that keeps a positive highScore.
C14_Witness ==
    /\ ~isGameOver /\ ~pendingPassive /\ highScore > 0
    /\ playerLane = 1 /\ jumpClock = 0 /\ obstacles = <<>>
    /\ score = 0 /\ spawnTimerRef = 0

C17_SpawnUsesNewScore ==
    [][\A delta \in DeltasFine : \A laneIndex \in Lanes :
          (update(delta, laneIndex) /\ ~collidedInTick(delta)) =>
              LET reached ==
                      spawnTimerRef + delta >= Max(250, 900 - score' * 25)
              IN  spawnTimerRef' = (IF reached THEN 0 ELSE spawnTimerRef + delta)]_vars

\* C18: moveLeft sets playerLane to max(0, playerLane - 1), moveRight to
\* min(LANES - 1, playerLane + 1), and both leave jumpClock, obstacles, score,
\* highScore, spawnTimerRef and isGameOver unchanged.
C18_LaneChange ==
    [][/\ moveLeft =>
            playerLane' = (IF playerLane = 0 THEN 0 ELSE playerLane - 1)
       /\ moveRight =>
            playerLane' = (IF playerLane = LANES - 1 THEN LANES - 1
                                                     ELSE playerLane + 1)
       /\ (moveLeft \/ moveRight) =>
            UNCHANGED <<jumpClock, obstacles, score, highScore,
                        spawnTimerRef, isGameOver>>]_vars

\* C18 witness: the player has been moved to the rightmost lane during a game.
C18_Witness ==
    playerLane = LANES - 1 /\ ~pendingPassive /\ ~isGameOver /\ Len(obstacles) > 0

\* C19: the lane found by a tick differs by at most 1 from the lane found by
\* the tick before it (at most one lane change takes effect between them).
C19_OneLaneChangePerTick ==
    [][Tick => (playerLane - laneAtTick <= 1 /\ laneAtTick - playerLane <= 1)]_vars

\* C19 as amended: requests are applied at once and never dropped.  Every
\* lane-change request away from the bound moves the lane by one, also when
\* the lane has already changed since the last tick; a jump request takes
\* effect exactly when jumpClock is 0, and as a positive jumpClock is only
\* changed by a tick or a reset, at most one jump request takes effect
\* between two ticks without a reset.
C19_RequestsNotCoalesced ==
    [][/\ (moveLeft /\ playerLane > 0) => playerLane' = playerLane - 1
       /\ (moveRight /\ playerLane < LANES - 1) => playerLane' = playerLane + 1
       /\ (triggerJump /\ jumpClock = 0) => jumpClock' = JUMP_DURATION
       /\ jumpClock' > jumpClock => jumpClock = 0
       /\ (jumpClock > 0 /\ ~Tick /\ (~isGameOver \/ isGameOver'))
            => jumpClock' = jumpClock]_vars

\* C19 witness: two lane changes have taken effect since the last tick of a
\* running game.
C19_Witness ==
    /\ ~isGameOver /\ frameRequested
    /\ (playerLane - laneAtTick = 2 \/ laneAtTick - playerLane = 2)

C21_ObstaclesOrdered ==
    /\ [](\A i \in 1 .. Len(obstacles) :
            /\ obstacles[i].lane \in Lanes
            /\ obstacles[i].y >= (0 - OBSTACLE_SIZE - 20) * YUnit
            /\ obstacles[i].y <= (fieldHeight + OBSTACLE_SIZE) * YUnit
            /\ \A j \in 1 .. Len(obstacles) :
                  i < j => obstacles[i].y >= obstacles[j].y)
    /\ [][\A delta \in Deltas : \A laneIndex \in Lanes :
            (update(delta, laneIndex) /\ ~collidedInTick(delta)) =>
                LET k == clearedInTick(delta)
                    kept == Len(obstacles) - k
                IN  /\ Len(obstacles') >= kept
                    /\ \A i \in 1 .. kept :
                          obstacles'[i].lane = obstacles[i + k].lane
                    /\ \A i \in 1 .. kept : \A j \in 1 .. kept :
                          obstacles'[i].y - obstacles'[j].y
                              = obstacles[i + k].y - obstacles[j + k].y]_vars

\* C21 witness: two obstacles of different lanes have advanced together and
\* the earlier one is strictly ahead.
C21_Witness ==
    /\ ~isGameOver
    /\ Len(obstacles) = 2
    /\ obstacles[1].lane # obstacles[2].lane
    /\ obstacles[2].y > (0 - OBSTACLE_SIZE - 20) * YUnit
    /\ obstacles[1].y > obstacles[2].y

\* C22: spawnTimerRef is always in [0, 900); a non-colliding tick leaves it
\* either at 0 (a spawn) or below the spawn interval of the score the tick
\* started with, and resetGame leaves it at 0.
C22_SpawnTimerBelowInterval ==
    /\ [](spawnTimerRef >= 0 /\ spawnTimerRef < 900)
    /\ [][\A delta \in DeltasFine : \A laneIndex \in Lanes :
            (update(delta, laneIndex) /\ ~collidedInTick(delta)) =>
                \/ spawnTimerRef' = 0
                \/ spawnTimerRef' < Max(250, 900 - score * 25)]_vars
    /\ [][(isGameOver /\ ~isGameOver') => spawnTimerRef' = 0]_vars

\* C22 witness: a tick of a game with a positive score has left the timer
\* above that score's interval without spawning.
C22_Witness ==
    /\ ~isGameOver /\ pendingPassive
    /\ score > 0
    /\ spawnTimerRef >= Max(250, 900 - score * 25)

\* C23: a jump that has taken effect ends.  While the player is alive and
\* frames with a positive delta keep firing, jumpClock returns to 0; it does
\* so in the frame that brings the frame time summed since the jump took
\* effect to JUMP_DURATION or more, no earlier, and a jump request made
\* meanwhile changes nothing.
C23_JumpEnds ==
    /\ (jumpClock > 0 /\ ~isGameOver)
          ~> (jumpClock = 0 \/ isGameOver \/ ~ENABLED TickPositive)
    /\ [](jumpClock > 0 => jumpClock + jumpElapsed = JUMP_DURATION)
    /\ [][(TickPositive /\ jumpClock > 0) => jumpClock' < jumpClock]_vars
    /\ [][(jumpClock > 0 /\ jumpClock' = 0 /\ ~isGameOver) =>
            \E delta \in Deltas :
                /\ \E laneIndex \in Lanes : update(delta, laneIndex)
                /\ jumpElapsed + delta >= JUMP_DURATION]_vars
    /\ [][(triggerJump /\ jumpClock > 0 /\ ~isGameOver) =>
            jumpClock' = jumpClock]_vars

\* C23 witness: frames have consumed part of a jump of a running game.
C23_Witness ==
    ~isGameOver /\ frameRequested /\ jumpClock > 0 /\ jumpElapsed > 0

=============================================================================
